---- MODULE Spec2Model ----
(***************************************************************************)
(* Model of the CharacterBERT tokenizer                                    *)
(* (src/transformers/models/character_bert/tokenization_character_bert.py) *)
(*                                                                         *)
(* A string is a sequence of Unicode code points, a byte string a sequence *)
(* of integers 0..255, a character-id list a sequence of integers.  Python *)
(* lists are 0-based, sequences here are 1-based: list position p is       *)
(* sequence index p + 1.                                                   *)
(*                                                                         *)
(* A Python list is an object: two names may denote the same list.  A      *)
(* reference is a record [ref, val]: ref names the attribute of the        *)
(* tokenizer instance whose list it is, or is "new" for a list built by    *)
(* the call, whose content is val.                                         *)
(***************************************************************************)
EXTENDS Integers, Sequences, FiniteSets, TLC

VARIABLES
    max_word_length,     \* self.max_word_length
    cls_character_ids,   \* self.cls_character_ids
    sep_character_ids,   \* self.sep_character_ids
    mask_character_ids,  \* self.mask_character_ids
    pad_character_ids,   \* self.pad_character_ids
    do_basic_tokenize,   \* self.do_basic_tokenize
    basic_tokenizer,     \* self.basic_tokenizer: the BasicTokenizer's attributes
    call,                \* the last call made on the instance, with its arguments and outcome
    writes               \* number of in-place writes the caller has made into lists it was handed

vars == <<max_word_length, cls_character_ids, sep_character_ids,
          mask_character_ids, pad_character_ids, do_basic_tokenize, basic_tokenizer,
          call, writes>>

\* the attributes of the tokenizer instance
instance == <<max_word_length, cls_character_ids, sep_character_ids,
              mask_character_ids, pad_character_ids, do_basic_tokenize, basic_tokenizer>>

---------------------------------------------------------------------------
(* Bounds of the model *)

MaxMWL == 5          \* largest max_word_length constructed
MaxTokenLen == 2     \* longest token, in code points, given to encode
MaxSeqLen == 2       \* longest token-id sequence given to sequence assembly
MaxTextLen == 2      \* longest text, in code points, given to tokenize
MaxWrites == 1       \* in-place writes a caller makes
MaxSegLen == 2       \* longest text, in code points, given to a BasicTokenizer

---------------------------------------------------------------------------
(* Program constants *)

PAD_CHARACTER_ID == 260
bow_character_id == 258
eow_character_id == 259
pad_character_id == PAD_CHARACTER_ID
CLS_INDEX == 256
SEP_INDEX == 257
MASK_INDEX == 261
MIN_WORD_LENGTH == 3

\* default special-token strings, as code points
unk_token == <<91, 85, 78, 75, 93>>        \* "[UNK]"
sep_token == <<91, 83, 69, 80, 93>>        \* "[SEP]"
pad_token == <<91, 80, 65, 68, 93>>        \* "[PAD]"
cls_token == <<91, 67, 76, 83, 93>>        \* "[CLS]"
mask_token == <<91, 77, 65, 83, 75, 93>>   \* "[MASK]"

---------------------------------------------------------------------------
(* Inputs *)

\* NUL, "a", A-macron (code point 256, 2 bytes), a CJK ideograph (3 bytes)
\* and a lone surrogate (no UTF-8 encoding)
CodePoints == {0, 97, 256, 20013, 55296}

Strings(n) == UNION {[1..k -> CodePoints] : k \in 0..n}

SpecialTokens == {cls_token, sep_token, mask_token, pad_token}

Tokens == Strings(MaxTokenLen) \cup SpecialTokens \cup {unk_token}

---------------------------------------------------------------------------
(* Python built-ins used by the code *)

RECURSIVE Concat(_)
Concat(ss) == IF ss = <<>> THEN <<>> ELSE Head(ss) \o Concat(Tail(ss))

\* [x] * n
Repeat(x, n) == [i \in 1..n |-> x]

\* the UTF-8 bytes of one code point; a surrogate has none and, under
\* errors="ignore", contributes nothing
utf8_bytes(cp) ==
    IF cp < 128 THEN <<cp>>
    ELSE IF cp < 2048 THEN <<192 + (cp \div 64), 128 + (cp % 64)>>
    ELSE IF cp >= 55296 /\ cp <= 57343 THEN <<>>
    ELSE IF cp < 65536
        THEN <<224 + (cp \div 4096), 128 + ((cp \div 64) % 64), 128 + (cp % 64)>>
    ELSE <<240 + (cp \div 262144), 128 + ((cp \div 4096) % 64),
           128 + ((cp \div 64) % 64), 128 + (cp % 64)>>

\* str.encode("utf-8", "ignore")
str_encode(s) == Concat([i \in 1..Len(s) |-> utf8_bytes(s[i])])

IsCont(b) == b >= 128 /\ b <= 191

\* bytes.decode("utf-8"), strict: [exc, value]
RECURSIVE bytes_decode(_)
bytes_decode(bs) ==
    LET bad == [exc |-> "UnicodeDecodeError", value |-> <<>>]
        Then(cp, n) ==
            LET rest == bytes_decode(SubSeq(bs, n + 1, Len(bs)))
            IN  IF rest.exc # "None" THEN rest
                ELSE [exc |-> "None", value |-> <<cp>> \o rest.value]
    IN  IF bs = <<>> THEN [exc |-> "None", value |-> <<>>]
        ELSE LET b == bs[1] IN
            IF b < 128 THEN Then(b, 1)
            ELSE IF b >= 194 /\ b <= 223 THEN
                IF Len(bs) >= 2 /\ IsCont(bs[2])
                THEN Then((b - 192) * 64 + (bs[2] - 128), 2)
                ELSE bad
            ELSE IF b >= 224 /\ b <= 239 THEN
                IF /\ Len(bs) >= 3 /\ IsCont(bs[2]) /\ IsCont(bs[3])
                   /\ (b = 224 => bs[2] >= 160)
                   /\ (b = 237 => bs[2] <= 159)
                THEN Then((b - 224) * 4096 + (bs[2] - 128) * 64 + (bs[3] - 128), 3)
                ELSE bad
            ELSE IF b >= 240 /\ b <= 244 THEN
                IF /\ Len(bs) >= 4 /\ IsCont(bs[2]) /\ IsCont(bs[3]) /\ IsCont(bs[4])
                   /\ (b = 240 => bs[2] >= 144)
                   /\ (b = 244 => bs[2] <= 143)
                THEN Then((b - 240) * 262144 + (bs[2] - 128) * 4096
                          + (bs[3] - 128) * 64 + (bs[4] - 128), 4)
                ELSE bad
            ELSE bad

\* list(filter(keep, xs))
RECURSIVE filter_codes(_)
filter_codes(xs) ==
    IF xs = <<>> THEN <<>>
    ELSE IF /\ Head(xs) # pad_character_id
            /\ Head(xs) # bow_character_id
            /\ Head(xs) # eow_character_id
         THEN <<Head(xs)>> \o filter_codes(Tail(xs))
         ELSE filter_codes(Tail(xs))

---------------------------------------------------------------------------
(* References to lists *)

New(xs) == [ref |-> "new", val |-> xs]
Attr(name) == [ref |-> name, val |-> <<>>]

Deref(r) ==
    CASE r.ref = "cls_character_ids" -> cls_character_ids
      [] r.ref = "sep_character_ids" -> sep_character_ids
      [] r.ref = "mask_character_ids" -> mask_character_ids
      [] r.ref = "pad_character_ids" -> pad_character_ids
      [] OTHER -> r.val

---------------------------------------------------------------------------
(* Construction *)

\* variant: the shift applied twice
special_token_character_ids_shift_twice(index, bow, eow, pad, mwl) ==
    [p \in 1..mwl |->
        (IF p = 1 THEN bow ELSE IF p = 2 THEN index ELSE IF p = 3 THEN eow ELSE pad) + 2]

special_token_character_ids(index, bow, eow, pad, mwl) ==
    LET character_ids ==
            [p \in 1..mwl |->
                IF p = 1 THEN bow
                ELSE IF p = 2 THEN index
                ELSE IF p = 3 THEN eow
                ELSE pad]
    IN  [p \in 1..mwl |-> character_ids[p] + 1]

\* BasicTokenizer.__init__; strip_accents is "None", "True" or "False"
BasicTokenizer(do_lower_case, never_split, tokenize_chinese_chars, strip_accents, split) ==
    [do_lower_case |-> do_lower_case,
     never_split |-> never_split,
     tokenize_chinese_chars |-> tokenize_chinese_chars,
     strip_accents |-> strip_accents,
     do_split_on_punc |-> split]

\* CharacterBertTokenizer.__init__ with the default options and a
\* max_word_length of at least 3
Init ==
    /\ max_word_length \in MIN_WORD_LENGTH..MaxMWL
    /\ cls_character_ids = special_token_character_ids(
           CLS_INDEX, bow_character_id, eow_character_id, pad_character_id, max_word_length)
    /\ sep_character_ids = special_token_character_ids(
           SEP_INDEX, bow_character_id, eow_character_id, pad_character_id, max_word_length)
    /\ mask_character_ids = special_token_character_ids(
           MASK_INDEX, bow_character_id, eow_character_id, pad_character_id, max_word_length)
    /\ pad_character_ids = Repeat(0, max_word_length)
    /\ do_basic_tokenize = TRUE
    /\ basic_tokenizer = BasicTokenizer(TRUE, {}, TRUE, "None", TRUE)
    /\ call = [op |-> "init"]
    /\ writes = 0

\* an attribute that no assignment has reached yet
Unset == <<>>

\* before CharacterBertTokenizer(...) is called: there is no instance
Unconstructed ==
    /\ max_word_length = Unset
    /\ cls_character_ids = Unset
    /\ sep_character_ids = Unset
    /\ mask_character_ids = Unset
    /\ pad_character_ids = Unset
    /\ do_basic_tokenize = Unset
    /\ basic_tokenizer = Unset
    /\ call = [op |-> "new"]
    /\ writes = 0

\* a constructor call has returned an instance
Constructed == call.op # "new" /\ ~(call.op = "construct" /\ call.exc # "None")

\* variant: a max_word_length of 2 is let through
Construct_accepts_2 ==
    /\ ~Constructed
    /\ \E mwl \in 0..MaxMWL :
        /\ do_basic_tokenize' = TRUE
        /\ basic_tokenizer' = BasicTokenizer(TRUE, {}, TRUE, "None", TRUE)
        /\ IF mwl < MIN_WORD_LENGTH - 1
           THEN /\ call' = [op |-> "construct", max_word_length |-> mwl,
                            exc |-> "ValueError", ret |-> <<>>]
                /\ max_word_length' = Unset
                /\ cls_character_ids' = Unset
                /\ sep_character_ids' = Unset
                /\ mask_character_ids' = Unset
                /\ pad_character_ids' = Unset
           ELSE /\ call' = [op |-> "construct", max_word_length |-> mwl,
                            exc |-> "None", ret |-> <<"self">>]
                /\ max_word_length' = mwl
                /\ cls_character_ids' = special_token_character_ids(
                       CLS_INDEX, bow_character_id, eow_character_id, pad_character_id, mwl)
                /\ sep_character_ids' = special_token_character_ids(
                       SEP_INDEX, bow_character_id, eow_character_id, pad_character_id, mwl)
                /\ mask_character_ids' = special_token_character_ids(
                       MASK_INDEX, bow_character_id, eow_character_id, pad_character_id, mwl)
                /\ pad_character_ids' = Repeat(0, mwl)
    /\ UNCHANGED writes

\* CharacterBertTokenizer.__init__ called with the default options and any
\* max_word_length: the BasicTokenizer is built first, then max_word_length is
\* checked, then the attributes of the byte encoder are assigned in order
Construct ==
    /\ ~Constructed
    /\ \E mwl \in 0..MaxMWL :
        /\ do_basic_tokenize' = TRUE
        /\ basic_tokenizer' = BasicTokenizer(TRUE, {}, TRUE, "None", TRUE)
        /\ IF mwl < MIN_WORD_LENGTH
           THEN /\ call' = [op |-> "construct", max_word_length |-> mwl,
                            exc |-> "ValueError", ret |-> <<>>]
                /\ max_word_length' = Unset
                /\ cls_character_ids' = Unset
                /\ sep_character_ids' = Unset
                /\ mask_character_ids' = Unset
                /\ pad_character_ids' = Unset
           ELSE /\ call' = [op |-> "construct", max_word_length |-> mwl,
                            exc |-> "None", ret |-> <<"self">>]
                /\ max_word_length' = mwl
                /\ cls_character_ids' = special_token_character_ids(
                       CLS_INDEX, bow_character_id, eow_character_id, pad_character_id, mwl)
                /\ sep_character_ids' = special_token_character_ids(
                       SEP_INDEX, bow_character_id, eow_character_id, pad_character_id, mwl)
                /\ mask_character_ids' = special_token_character_ids(
                       MASK_INDEX, bow_character_id, eow_character_id, pad_character_id, mwl)
                /\ pad_character_ids' = Repeat(0, mwl)
    /\ UNCHANGED writes

---------------------------------------------------------------------------
(* Byte encoder / decoder *)

\* variant: the bytes are not truncated to max_word_length - 2
convert_token_to_id_no_truncation(token) ==
    IF token = cls_token THEN Attr("cls_character_ids")
    ELSE IF token = sep_token THEN Attr("sep_character_ids")
    ELSE IF token = mask_token THEN Attr("mask_character_ids")
    ELSE IF token = pad_token THEN Attr("pad_character_ids")
    ELSE
        LET token_bytes == str_encode(token)
            n == Len(token_bytes)
            pads == IF max_word_length - 2 > n THEN max_word_length - 2 - n ELSE 0
            character_ids == <<bow_character_id>> \o token_bytes \o <<eow_character_id>>
                             \o Repeat(pad_character_id, pads)
        IN  New([p \in 1..Len(character_ids) |-> character_ids[p] + 1])

\* variant: the characters' code points are used in place of their UTF-8 bytes
convert_token_to_id_code_points(token) ==
    IF token = cls_token THEN Attr("cls_character_ids")
    ELSE IF token = sep_token THEN Attr("sep_character_ids")
    ELSE IF token = mask_token THEN Attr("mask_character_ids")
    ELSE IF token = pad_token THEN Attr("pad_character_ids")
    ELSE
        LET n == IF Len(token) < max_word_length - 2 THEN Len(token) ELSE max_word_length - 2
            character_ids ==
                [p \in 1..max_word_length |->
                    IF p = 1 THEN bow_character_id
                    ELSE IF p <= n + 1 THEN token[p - 1]
                    ELSE IF p = n + 2 THEN eow_character_id
                    ELSE pad_character_id]
        IN  New([p \in 1..max_word_length |-> character_ids[p] + 1])

\* variant: one byte fewer is kept than the array has room for
convert_token_to_id_short(token) ==
    IF token = cls_token THEN Attr("cls_character_ids")
    ELSE IF token = sep_token THEN Attr("sep_character_ids")
    ELSE IF token = mask_token THEN Attr("mask_character_ids")
    ELSE IF token = pad_token THEN Attr("pad_character_ids")
    ELSE
        LET all_bytes == str_encode(token)
            n == IF Len(all_bytes) < max_word_length - 3
                 THEN Len(all_bytes) ELSE max_word_length - 3
            token_bytes == SubSeq(all_bytes, 1, n)
            character_ids ==
                [p \in 1..max_word_length |->
                    IF p = 1 THEN bow_character_id
                    ELSE IF p <= n + 1 THEN token_bytes[p - 1]
                    ELSE IF p = n + 2 THEN eow_character_id
                    ELSE pad_character_id]
        IN  New([p \in 1..max_word_length |-> character_ids[p] + 1])

\* CharacterBertTokenizer._convert_token_to_id: a reference to the list returned
convert_token_to_id(token) ==
    IF token = cls_token THEN Attr("cls_character_ids")
    ELSE IF token = sep_token THEN Attr("sep_character_ids")
    ELSE IF token = mask_token THEN Attr("mask_character_ids")
    ELSE IF token = pad_token THEN Attr("pad_character_ids")
    ELSE
        LET all_bytes == str_encode(token)
            n == IF Len(all_bytes) < max_word_length - 2
                 THEN Len(all_bytes) ELSE max_word_length - 2
            token_bytes == SubSeq(all_bytes, 1, n)
            character_ids ==
                [p \in 1..max_word_length |->
                    IF p = 1 THEN bow_character_id
                    ELSE IF p <= n + 1 THEN token_bytes[p - 1]
                    ELSE IF p = n + 2 THEN eow_character_id
                    ELSE pad_character_id]
        IN  New([p \in 1..max_word_length |-> character_ids[p] + 1])

\* CharacterBertTokenizer._convert_id_to_token: [exc, value]
convert_id_to_token(character_ids) ==
    IF ~(Len(character_ids) # max_word_length)
    THEN [exc |-> "AssertionError", value |-> <<>>]
    ELSE
        LET character_ids_ == [p \in 1..Len(character_ids) |-> character_ids[p] - 1]
        IN  IF character_ids_ = cls_character_ids THEN [exc |-> "None", value |-> cls_token]
            ELSE IF character_ids_ = sep_character_ids THEN [exc |-> "None", value |-> sep_token]
            ELSE IF character_ids_ = mask_character_ids THEN [exc |-> "None", value |-> mask_token]
            ELSE IF character_ids_ = pad_character_ids THEN [exc |-> "None", value |-> pad_token]
            ELSE
                LET utf8_codes == filter_codes(character_ids_)
                IN  IF \E p \in 1..Len(utf8_codes) : utf8_codes[p] < 0 \/ utf8_codes[p] > 255
                    THEN [exc |-> "ValueError", value |-> <<>>]
                    ELSE bytes_decode(utf8_codes)

\* variant: the shift is applied to the returned list in place, on every branch
Encode_shift_in_place ==
    \E token \in Tokens :
        LET shifted(xs) == [p \in 1..Len(xs) |-> xs[p] + 1] IN
        /\ call' = [op |-> "encode", token |-> token, ret |-> convert_token_to_id(token)]
        /\ cls_character_ids' =
               IF token = cls_token THEN shifted(cls_character_ids) ELSE cls_character_ids
        /\ sep_character_ids' =
               IF token = sep_token THEN shifted(sep_character_ids) ELSE sep_character_ids
        /\ mask_character_ids' =
               IF token = mask_token THEN shifted(mask_character_ids) ELSE mask_character_ids
        /\ pad_character_ids' =
               IF token = pad_token THEN shifted(pad_character_ids) ELSE pad_character_ids
        /\ UNCHANGED <<max_word_length, do_basic_tokenize, basic_tokenizer, writes>>

\* a call of _convert_token_to_id
Encode ==
    \E token \in Tokens :
        /\ call' = [op |-> "encode", token |-> token, ret |-> convert_token_to_id(token)]
        /\ UNCHANGED <<instance, writes>>

\* lists a caller passes to decode that no encode call produced
ArbitraryIds ==
    {Repeat(v, n) : v \in {0, 1, 98, 257}, n \in 0..(MaxMWL + 1)}

\* lists a caller derives from the one the preceding encode call returned:
\* its prefixes (itself included) and itself with one more entry
DerivedIds ==
    IF call.op = "encode"
    THEN LET xs == Deref(call.ret)
         IN  {SubSeq(xs, 1, n) : n \in 0..Len(xs)} \cup {xs \o <<pad_character_id + 1>>}
    ELSE {}

\* a call of _convert_id_to_token; `of` is the token whose encoding is passed,
\* as encode returned it, when the caller does that
Decode ==
    \E character_ids \in ArbitraryIds \cup DerivedIds :
        /\ call' = [op |-> "decode",
                    character_ids |-> character_ids,
                    of |-> IF call.op = "encode" /\ character_ids = Deref(call.ret)
                           THEN <<call.token>> ELSE <<>>,
                    ret |-> convert_id_to_token(character_ids)]
        /\ UNCHANGED <<instance, writes>>

---------------------------------------------------------------------------
(* Unicode data, for the characters the model uses *)

\* precomposed letters: <<code point, base letter, combining mark>>
Precomposed ==
    {<<193, 65, 769>>, <<225, 97, 769>>, <<201, 69, 769>>, <<233, 101, 769>>,
     <<256, 65, 772>>, <<257, 97, 772>>, <<274, 69, 772>>, <<275, 101, 772>>,
     <<304, 73, 775>>}

\* unicodedata.category
unicode_category(cp) ==
    CASE cp < 32 \/ cp = 127 -> "Cc"
      [] cp = 32 \/ cp = 160 -> "Zs"
      [] cp = 39 -> "Po"
      [] cp >= 48 /\ cp <= 57 -> "Nd"
      [] cp >= 65 /\ cp <= 90 -> "Lu"
      [] cp >= 97 /\ cp <= 122 -> "Ll"
      [] cp \in {193, 201, 256, 274, 304} -> "Lu"
      [] cp \in {225, 233, 257, 275} -> "Ll"
      [] cp >= 768 /\ cp <= 879 -> "Mn"
      [] cp >= 55296 /\ cp <= 57343 -> "Cs"
      [] cp = 65533 \/ cp = 128512 -> "So"
      [] OTHER -> "Lo"

\* str.lower, one character: the characters of the result
char_lower(cp) ==
    IF cp >= 65 /\ cp <= 90 THEN <<cp + 32>>
    ELSE IF cp = 193 \/ cp = 201 THEN <<cp + 32>>
    ELSE IF cp = 256 \/ cp = 274 THEN <<cp + 1>>
    ELSE IF cp = 304 THEN <<105, 775>>
    ELSE <<cp>>

\* unicodedata.combining: the canonical combining class
combining(cp) ==
    IF cp < 768 \/ cp > 879 \/ cp = 847 THEN 0
    ELSE IF cp >= 820 /\ cp <= 824 THEN 1
    ELSE IF cp \in {801, 802, 807, 808} THEN 202
    ELSE IF cp = 795 THEN 216
    ELSE IF cp \in (790..793) \cup (796..800) \cup (803..806) \cup (809..819)
                   \cup (825..828) \cup (839..841) \cup {845, 846}
                   \cup (851..854) \cup {857, 858} THEN 220
    ELSE IF cp \in {789, 794, 856} THEN 232
    ELSE IF cp \in {860, 863, 866} THEN 233
    ELSE IF cp \in {861, 862, 864, 865} THEN 234
    ELSE IF cp = 837 THEN 240
    ELSE 230

\* canonical decomposition of one character
char_nfd(cp) ==
    IF \E c \in Precomposed : c[1] = cp
    THEN LET c == CHOOSE c \in Precomposed : c[1] = cp IN <<c[2], c[3]>>
    ELSE <<cp>>

\* canonical ordering, one character: c goes in front of the marks of a
\* higher combining class that end the text so far
RECURSIVE insert_mark(_, _)
insert_mark(out, c) ==
    IF out # <<>> /\ combining(c) > 0 /\ combining(out[Len(out)]) > combining(c)
    THEN insert_mark(SubSeq(out, 1, Len(out) - 1), c) \o <<out[Len(out)]>>
    ELSE out \o <<c>>

RECURSIVE canonical_order(_, _)
canonical_order(text, out) ==
    IF text = <<>> THEN out
    ELSE canonical_order(Tail(text), insert_mark(out, Head(text)))

\* unicodedata.normalize("NFD", text)
nfd(text) ==
    canonical_order(Concat([i \in 1..Len(text) |-> char_nfd(text[i])]), <<>>)

\* canonical composition of a decomposed text.  starter is the last character
\* of combining class 0 (none: <<>>), marks the characters after it that did
\* not compose; a mark composes with the starter when no mark of the same or
\* a higher class stands between them.
RECURSIVE compose_loop(_, _, _, _)
compose_loop(text, out, starter, marks) ==
    IF text = <<>> THEN out \o starter \o marks
    ELSE LET c == Head(text)
             free == marks = <<>> \/ combining(marks[Len(marks)]) < combining(c)
         IN  IF /\ starter # <<>>
                /\ free
                /\ \E pc \in Precomposed : pc[2] = starter[1] /\ pc[3] = c
             THEN LET pc == CHOOSE pc \in Precomposed : pc[2] = starter[1] /\ pc[3] = c
                  IN  compose_loop(Tail(text), out, <<pc[1]>>, marks)
             ELSE IF combining(c) = 0
                  THEN compose_loop(Tail(text), out \o starter \o marks, <<c>>, <<>>)
                  ELSE compose_loop(Tail(text), out, starter, marks \o <<c>>)

compose(text) == compose_loop(text, <<>>, <<>>, <<>>)

\* unicodedata.normalize("NFC", text)
nfc(text) == compose(nfd(text))

\* str.isspace, which str.strip() and str.split() go by
py_isspace(cp) == cp \in {9, 10, 11, 12, 13, 28, 29, 30, 31, 32, 133, 160}

\* tokenization_utils._is_whitespace
is_whitespace(cp) ==
    IF cp = 32 \/ cp = 9 \/ cp = 10 \/ cp = 13 THEN TRUE
    ELSE unicode_category(cp) = "Zs"

\* tokenization_utils._is_control
is_control(cp) ==
    IF cp = 9 \/ cp = 10 \/ cp = 13 THEN FALSE
    ELSE unicode_category(cp) \in {"Cc", "Cf", "Cn", "Co", "Cs"}

\* tokenization_utils._is_punctuation
is_punctuation(cp) ==
    IF \/ (cp >= 33 /\ cp <= 47) \/ (cp >= 58 /\ cp <= 64)
       \/ (cp >= 91 /\ cp <= 96) \/ (cp >= 123 /\ cp <= 126)
    THEN TRUE
    ELSE unicode_category(cp) \in {"Pc", "Pd", "Ps", "Pe", "Pi", "Pf", "Po"}

---------------------------------------------------------------------------
(* Segmenter *)

\* " ".join(tokens)
RECURSIVE space_join(_)
space_join(tokens) ==
    IF tokens = <<>> THEN <<>>
    ELSE IF Len(tokens) = 1 THEN tokens[1]
    ELSE tokens[1] \o <<32>> \o space_join(Tail(tokens))

\* whitespace_tokenize: text.strip() then text.split(); both drop every run
\* of whitespace.  cur is the token being read.
RECURSIVE split_ws(_, _)
split_ws(text, cur) ==
    IF text = <<>> THEN (IF cur = <<>> THEN <<>> ELSE <<cur>>)
    ELSE IF py_isspace(Head(text))
         THEN (IF cur = <<>> THEN <<>> ELSE <<cur>>) \o split_ws(Tail(text), <<>>)
         ELSE split_ws(Tail(text), cur \o <<Head(text)>>)

whitespace_tokenize(text) == split_ws(text, <<>>)

\* BasicTokenizer._clean_text
RECURSIVE clean_text(_)
clean_text(text) ==
    IF text = <<>> THEN <<>>
    ELSE LET cp == Head(text) IN
         IF cp = 0 \/ cp = 65533 \/ is_control(cp) THEN clean_text(Tail(text))
         ELSE IF is_whitespace(cp) THEN <<32>> \o clean_text(Tail(text))
         ELSE <<cp>> \o clean_text(Tail(text))

\* BasicTokenizer._is_chinese_char
is_chinese_char(cp) ==
    \/ (cp >= 19968 /\ cp <= 40959)
    \/ (cp >= 13312 /\ cp <= 19903)
    \/ (cp >= 131072 /\ cp <= 173791)
    \/ (cp >= 173824 /\ cp <= 177983)
    \/ (cp >= 177984 /\ cp <= 178207)
    \/ (cp >= 178208 /\ cp <= 183983)
    \/ (cp >= 63744 /\ cp <= 64255)
    \/ (cp >= 194560 /\ cp <= 195103)

\* BasicTokenizer._tokenize_chinese_chars
tokenize_chinese_chars(text) ==
    Concat([i \in 1..Len(text) |->
        IF is_chinese_char(text[i]) THEN <<32, text[i], 32>> ELSE <<text[i]>>])

\* BasicTokenizer._run_strip_accents
RECURSIVE drop_marks(_)
drop_marks(text) ==
    IF text = <<>> THEN <<>>
    ELSE IF unicode_category(Head(text)) = "Mn" THEN drop_marks(Tail(text))
    ELSE <<Head(text)>> \o drop_marks(Tail(text))

run_strip_accents(text) == drop_marks(nfd(text))

\* variant: the character after a punctuation character does not start a
\* new segment
RECURSIVE split_on_punc_loop_glued(_, _, _)
split_on_punc_loop_glued(chars, start_new_word, output) ==
    IF chars = <<>> THEN output
    ELSE LET char == Head(chars) IN
         IF is_punctuation(char)
         THEN split_on_punc_loop_glued(Tail(chars), FALSE, output \o <<<<char>>>>)
         ELSE LET out == IF start_new_word THEN output \o <<<<>>>> ELSE output
              IN  split_on_punc_loop_glued(Tail(chars), FALSE,
                      [out EXCEPT ![Len(out)] = out[Len(out)] \o <<char>>])

\* the loop of BasicTokenizer._run_split_on_punc: output is the list of
\* segments so far
RECURSIVE split_on_punc_loop(_, _, _)
split_on_punc_loop(chars, start_new_word, output) ==
    IF chars = <<>> THEN output
    ELSE LET char == Head(chars) IN
         IF is_punctuation(char)
         THEN split_on_punc_loop(Tail(chars), TRUE, output \o <<<<char>>>>)
         ELSE LET out == IF start_new_word THEN output \o <<<<>>>> ELSE output
              IN  split_on_punc_loop(Tail(chars), FALSE,
                      [out EXCEPT ![Len(out)] = out[Len(out)] \o <<char>>])

\* BasicTokenizer._run_split_on_punc
run_split_on_punc(do_split_on_punc, text, never_split) ==
    IF ~do_split_on_punc \/ text \in never_split
    THEN <<text>>
    ELSE split_on_punc_loop(text, TRUE, <<>>)

\* token.lower()
str_lower(token) == Concat([i \in 1..Len(token) |-> char_lower(token[i])])

\* variant: casing and accents are applied to never-split tokens too
basic_token_cases_all(bt, token, never_split) ==
    LET cased ==
            IF bt.do_lower_case
            THEN IF bt.strip_accents # "False"
                 THEN run_strip_accents(str_lower(token))
                 ELSE str_lower(token)
            ELSE IF bt.strip_accents = "True"
                 THEN run_strip_accents(token)
                 ELSE token
    IN  run_split_on_punc(bt.do_split_on_punc, cased, never_split)

\* the per-token step of BasicTokenizer.tokenize: casing and accents, then
\* the punctuation split
basic_token(bt, token, never_split) ==
    LET cased ==
            IF token \notin never_split
            THEN IF bt.do_lower_case
                 THEN IF bt.strip_accents # "False"
                      THEN run_strip_accents(str_lower(token))
                      ELSE str_lower(token)
                 ELSE IF bt.strip_accents = "True"
                      THEN run_strip_accents(token)
                      ELSE token
            ELSE token
    IN  run_split_on_punc(bt.do_split_on_punc, cased, never_split)

\* BasicTokenizer.tokenize; never_split is the per-call collection (None: {})
basic_tokenize(bt, text, never_split) ==
    LET never == IF never_split # {} THEN bt.never_split \cup never_split
                 ELSE bt.never_split
        cleaned == clean_text(text)
        isolated == IF bt.tokenize_chinese_chars
                    THEN tokenize_chinese_chars(cleaned) ELSE cleaned
        orig_tokens == whitespace_tokenize(nfc(isolated))
        split_tokens ==
            Concat([i \in 1..Len(orig_tokens) |-> basic_token(bt, orig_tokens[i], never)])
    IN  whitespace_tokenize(space_join(split_tokens))

\* SpecialTokensMixin.all_special_tokens
all_special_tokens == {unk_token, sep_token, pad_token, cls_token, mask_token}

\* CharacterBertTokenizer._tokenize
tokenize(text, split_special_tokens) ==
    IF do_basic_tokenize
    THEN basic_tokenize(basic_tokenizer, text,
             IF ~split_special_tokens THEN all_special_tokens ELSE {})
    ELSE whitespace_tokenize(text)

\* characters of the texts given to tokenize: space, an apostrophe, "A",
\* e-acute, a CJK ideograph
TextChars == {32, 39, 65, 233, 20013}

Texts == UNION {[1..k -> TextChars] : k \in 0..MaxTextLen}

\* a call of _tokenize
Tokenize ==
    \E text \in Texts, split_special_tokens \in BOOLEAN :
        /\ call' = [op |-> "tokenize", text |-> text,
                    split_special_tokens |-> split_special_tokens,
                    ret |-> tokenize(text, split_special_tokens)]
        /\ UNCHANGED <<instance, writes>>

\* characters of the texts given to a BasicTokenizer used on its own: space,
\* an apostrophe, capital I with dot above, combining grave accent below
SegChars == {32, 39, 304, 790}

SegTexts == UNION {[1..k -> SegChars] : k \in 0..MaxSegLen}

\* the never_split collection the BasicTokenizer is constructed with
InstanceNeverSplit == {<<304, 39>>}

\* the never_split argument of a call: None or empty ({}), or a collection
CallNeverSplit == {{}, {<<304>>}}

\* BasicTokenizer.__init__ called on its own, with any setting of the casing,
\* accent and punctuation options; there is no CharacterBertTokenizer
InitSeg ==
    /\ max_word_length = Unset
    /\ cls_character_ids = Unset
    /\ sep_character_ids = Unset
    /\ mask_character_ids = Unset
    /\ pad_character_ids = Unset
    /\ do_basic_tokenize = Unset
    /\ basic_tokenizer \in
           {BasicTokenizer(l, InstanceNeverSplit, TRUE, sa, p) :
                l \in BOOLEAN, sa \in {"None", "True", "False"}, p \in BOOLEAN}
    /\ call = [op |-> "init"]
    /\ writes = 0

\* a call of BasicTokenizer.tokenize
Segment ==
    \E text \in SegTexts, never_split \in CallNeverSplit :
        /\ call' = [op |-> "segment", text |-> text, never_split |-> never_split,
                    ret |-> basic_tokenize(basic_tokenizer, text, never_split)]
        /\ UNCHANGED <<instance, writes>>

\* a call of BasicTokenizer.tokenize on " ".join(tokens), tokens being what
\* the preceding call returned, with the same never_split argument
Resegment ==
    /\ call.op \in {"segment", "resegment"}
    /\ call' = [op |-> "resegment", text |-> space_join(call.ret),
                never_split |-> call.never_split, first |-> call.ret,
                ret |-> basic_tokenize(basic_tokenizer, space_join(call.ret),
                                       call.never_split)]
    /\ UNCHANGED <<instance, writes>>

\* a call of BasicTokenizer._run_split_on_punc
SplitOnPunc ==
    \E token \in SegTexts, never_split \in {{}, InstanceNeverSplit} :
        /\ call' = [op |-> "split_on_punc", token |-> token, never_split |-> never_split,
                    ret |-> run_split_on_punc(basic_tokenizer.do_split_on_punc,
                                              token, never_split)]
        /\ UNCHANGED <<instance, writes>>

---------------------------------------------------------------------------
(* Sequence assembly *)

\* Optional[...] arguments: None, or the value given
None == <<>>
Some(x) == <<x>>

\* SpecialTokensMixin.cls_token_id / sep_token_id: convert_tokens_to_ids of the
\* token string, which reaches _convert_token_to_id because __init__ empties
\* _added_tokens_encoder
cls_token_id == convert_token_to_id(cls_token)
sep_token_id == convert_token_to_id(sep_token)

\* SpecialTokensMixin.all_special_ids, as the lists' contents
all_special_ids ==
    {Deref(convert_token_to_id(t)) :
        t \in {unk_token, sep_token, pad_token, cls_token, mask_token}}

\* variant: an empty second sequence is taken for an absent one
build_inputs_with_special_tokens_falsy(token_ids_0, token_ids_1) ==
    IF token_ids_1 = None \/ token_ids_1 = Some(<<>>)
    THEN <<cls_token_id>> \o token_ids_0 \o <<sep_token_id>>
    ELSE <<cls_token_id>> \o token_ids_0 \o <<sep_token_id>>
         \o token_ids_1[1] \o <<sep_token_id>>

\* CharacterBertTokenizer.build_inputs_with_special_tokens: a new list of references
build_inputs_with_special_tokens(token_ids_0, token_ids_1) ==
    IF token_ids_1 = None
    THEN <<cls_token_id>> \o token_ids_0 \o <<sep_token_id>>
    ELSE LET cls == <<cls_token_id>>
             sep == <<sep_token_id>>
         IN  cls \o token_ids_0 \o sep \o token_ids_1[1] \o sep

\* the base class's get_special_tokens_mask(already_has_special_tokens=True): [exc, value]
super_get_special_tokens_mask(token_ids_0, token_ids_1) ==
    IF token_ids_1 # None
    THEN [exc |-> "ValueError", value |-> <<>>]
    ELSE [exc |-> "None",
          value |-> [i \in 1..Len(token_ids_0) |->
                        IF Deref(token_ids_0[i]) \in all_special_ids THEN 1 ELSE 0]]

\* variant: an empty second sequence is taken for an absent one
get_special_tokens_mask_falsy(token_ids_0, token_ids_1, already_has_special_tokens) ==
    IF already_has_special_tokens
    THEN super_get_special_tokens_mask(token_ids_0, token_ids_1)
    ELSE IF token_ids_1 # None /\ token_ids_1 # Some(<<>>)
    THEN [exc |-> "None",
          value |-> <<1>> \o Repeat(0, Len(token_ids_0)) \o <<1>>
                    \o Repeat(0, Len(token_ids_1[1])) \o <<1>>]
    ELSE [exc |-> "None", value |-> <<1>> \o Repeat(0, Len(token_ids_0)) \o <<1>>]

\* CharacterBertTokenizer.get_special_tokens_mask: [exc, value]
get_special_tokens_mask(token_ids_0, token_ids_1, already_has_special_tokens) ==
    IF already_has_special_tokens
    THEN super_get_special_tokens_mask(token_ids_0, token_ids_1)
    ELSE IF token_ids_1 # None
    THEN [exc |-> "None",
          value |-> <<1>> \o Repeat(0, Len(token_ids_0)) \o <<1>>
                    \o Repeat(0, Len(token_ids_1[1])) \o <<1>>]
    ELSE [exc |-> "None", value |-> <<1>> \o Repeat(0, Len(token_ids_0)) \o <<1>>]

\* variant: the separator that closes the second segment is not counted
create_token_type_ids_from_sequences_no_sep(token_ids_0, token_ids_1) ==
    IF token_ids_1 = None
    THEN Repeat(0, Len(<<cls_token_id>> \o token_ids_0 \o <<sep_token_id>>))
    ELSE Repeat(0, Len(<<cls_token_id>> \o token_ids_0 \o <<sep_token_id>>))
         \o Repeat(1, Len(token_ids_1[1]))

\* CharacterBertTokenizer.create_token_type_ids_from_sequences
create_token_type_ids_from_sequences(token_ids_0, token_ids_1) ==
    LET sep == <<sep_token_id>>
        cls == <<cls_token_id>>
    IN  IF token_ids_1 = None
        THEN Repeat(0, Len(cls \o token_ids_0 \o sep))
        ELSE Repeat(0, Len(cls \o token_ids_0 \o sep))
             \o Repeat(1, Len(token_ids_1[1] \o sep))

\* tokens whose encodings a caller assembles
SeqTokens == {<<97>>, cls_token}

\* sequences of encoded tokens a caller passes to sequence assembly
TokenIdSeqs ==
    UNION {[1..k -> {convert_token_to_id(t) : t \in SeqTokens}] : k \in 0..MaxSeqLen}

OptTokenIdSeqs == {None} \cup {Some(s) : s \in TokenIdSeqs}

BuildInputs ==
    \E token_ids_0 \in TokenIdSeqs, token_ids_1 \in OptTokenIdSeqs :
        /\ call' = [op |-> "build_inputs",
                    token_ids_0 |-> token_ids_0, token_ids_1 |-> token_ids_1,
                    ret |-> build_inputs_with_special_tokens(token_ids_0, token_ids_1)]
        /\ UNCHANGED <<instance, writes>>

SpecialTokensMask ==
    \E token_ids_0 \in TokenIdSeqs, token_ids_1 \in OptTokenIdSeqs,
       already_has_special_tokens \in BOOLEAN :
        /\ call' = [op |-> "special_tokens_mask",
                    token_ids_0 |-> token_ids_0, token_ids_1 |-> token_ids_1,
                    already_has_special_tokens |-> already_has_special_tokens,
                    ret |-> get_special_tokens_mask(
                                token_ids_0, token_ids_1, already_has_special_tokens)]
        /\ UNCHANGED <<instance, writes>>

TokenTypeIds ==
    \E token_ids_0 \in TokenIdSeqs, token_ids_1 \in OptTokenIdSeqs :
        /\ call' = [op |-> "token_type_ids",
                    token_ids_0 |-> token_ids_0, token_ids_1 |-> token_ids_1,
                    ret |-> create_token_type_ids_from_sequences(token_ids_0, token_ids_1)]
        /\ UNCHANGED <<instance, writes>>

---------------------------------------------------------------------------
(* The caller's own code: an in-place write, xs[p - 1] = v, into a list that *)
(* the preceding encode or buildInputs call handed over                     *)

WriteValues == {0, 1}

\* the lists the preceding call handed to the caller
Handed ==
    IF call.op = "encode" THEN {call.ret}
    ELSE IF call.op = "build_inputs" THEN {call.ret[i] : i \in 1..Len(call.ret)}
    ELSE {}

CallerWrite ==
    /\ writes < MaxWrites
    /\ \E r \in Handed, v \in WriteValues :
        \E p \in 1..Len(Deref(r)) :
            LET xs == [Deref(r) EXCEPT ![p] = v]
            IN  /\ cls_character_ids' =
                       IF r.ref = "cls_character_ids" THEN xs ELSE cls_character_ids
                /\ sep_character_ids' =
                       IF r.ref = "sep_character_ids" THEN xs ELSE sep_character_ids
                /\ mask_character_ids' =
                       IF r.ref = "mask_character_ids" THEN xs ELSE mask_character_ids
                /\ pad_character_ids' =
                       IF r.ref = "pad_character_ids" THEN xs ELSE pad_character_ids
                /\ call' = [op |-> "write", ref |-> r.ref, p |-> p, v |-> v]
    /\ writes' = writes + 1
    /\ UNCHANGED <<max_word_length, do_basic_tokenize, basic_tokenizer>>

---------------------------------------------------------------------------
(* Specifications *)

\* calls on the instance only
Next ==
    Tokenize \/ Encode \/ Decode \/ BuildInputs \/ SpecialTokensMask \/ TokenTypeIds

Spec == Init /\ [][Next]_vars

\* encode and buildInputs calls, and a caller that writes into the lists
\* they hand over
NextCaller == Encode \/ BuildInputs \/ CallerWrite

SpecCaller == Init /\ [][NextCaller]_vars

\* the constructor called until it returns an instance, then calls on that
\* instance
NextConstruct == Construct \/ (Constructed /\ Encode) \/ (Constructed /\ BuildInputs)

SpecConstruct == Unconstructed /\ [][NextConstruct]_vars

\* calls on a BasicTokenizer
NextSeg == Segment \/ Resegment \/ SplitOnPunc

SpecSeg == InitSeg /\ [][NextSeg]_vars

---------------------------------------------------------------------------
(* Properties *)

\* the special arrays as the data model gives them, for a word length mwl
ExpectedCLS(mwl) == <<259, 257, 260>> \o Repeat(261, mwl - 3)
ExpectedSEP(mwl) == <<259, 258, 260>> \o Repeat(261, mwl - 3)
ExpectedMASK(mwl) == <<259, 262, 260>> \o Repeat(261, mwl - 3)
ExpectedPAD(mwl) == Repeat(0, mwl)

ExpectedSpecial(token, mwl) ==
    IF token = cls_token THEN ExpectedCLS(mwl)
    ELSE IF token = sep_token THEN ExpectedSEP(mwl)
    ELSE IF token = mask_token THEN ExpectedMASK(mwl)
    ELSE ExpectedPAD(mwl)

\* the contents of a list of lists
Contents(s) == [i \in 1..Len(s) |-> Deref(s[i])]

\* C1: decode fails with a length-mismatch error exactly when the length of its
\* input differs from max_word_length.  The code's assertion is inverted: it
\* fails exactly when the length equals max_word_length.
C1_DecodeLengthCheck ==
    call.op = "decode" =>
        ((call.ret.exc = "AssertionError") <=> (Len(call.character_ids) # max_word_length))

\* C2: decoding the encoding of an ordinary token of at most max_word_length - 2
\* bytes returns the token.  The code's decode rejects every list of length
\* max_word_length, so no encoding is ever decoded.
C2_RoundTripOrdinary ==
    (/\ call.op = "decode"
     /\ call.of # <<>>
     /\ call.of[1] \notin SpecialTokens
     /\ Len(str_encode(call.of[1])) <= max_word_length - 2)
    => call.ret = [exc |-> "None", value |-> call.of[1]]

\* C3: decoding the array that encode returns for the CLS, SEP, MASK or PAD tag
\* returns that tag.
C3_RoundTripSpecial ==
    (/\ call.op = "decode"
     /\ call.of # <<>>
     /\ call.of[1] \in SpecialTokens)
    => call.ret = [exc |-> "None", value |-> call.of[1]]

\* C4 as stated: every entry of every array encode returns is in 0..261.
C4_ValueRange261 ==
    call.op = "encode" =>
        \A p \in 1..Len(Deref(call.ret)) : Deref(call.ret)[p] \in 0..261

\* C4 as amended: every entry of every array encode returns is in 0..262,
\* and 262 is the MASK marker of the MASK array (position 1) and occurs
\* nowhere else.
C4_ValueRange262 ==
    call.op = "encode" =>
        \A p \in 1..Len(Deref(call.ret)) :
            /\ Deref(call.ret)[p] \in 0..262
            /\ Deref(call.ret)[p] = 262 => (call.token = mask_token /\ p = 2)

C4_Witness ==
    /\ call.op = "encode"
    /\ call.token = mask_token
    /\ Deref(call.ret)[2] = 262

\* C5: encode returns an array of exactly max_word_length entries for every
\* input, ordinary (empty, short, exactly fitting, truncated) or special.
C5_LengthInvariant ==
    call.op = "encode" => Len(Deref(call.ret)) = max_word_length

C5_Witness ==
    /\ call.op = "encode"
    /\ call.token \notin SpecialTokens
    /\ Len(str_encode(call.token)) > max_word_length - 2
    /\ Len(Deref(call.ret)) = max_word_length

\* C6: the four special arrays are pairwise distinct and none of them is the
\* encoding of an ordinary token.
C6_Disjointness ==
    LET specials == <<cls_character_ids, sep_character_ids,
                      mask_character_ids, pad_character_ids>>
    IN  /\ \A i, j \in 1..4 : i # j => specials[i] # specials[j]
        /\ (call.op = "encode" /\ call.token \notin SpecialTokens)
            => \A i \in 1..4 : Deref(call.ret) # specials[i]

C6_Witness ==
    /\ call.op = "encode"
    /\ call.token = <<256>>
    /\ max_word_length = MIN_WORD_LENGTH
    /\ Deref(call.ret) = <<259, 197, 260>>
    /\ cls_character_ids = <<259, 257, 260>>

\* C7: no call on the instance changes max_word_length or a special array, and
\* every encode of a special tag returns the array built at construction.
C7_FixedPoint ==
    [][/\ instance' = instance
       /\ (call'.op = "encode" /\ call'.token \in SpecialTokens)
            => Deref(call.ret)' = ExpectedSpecial(call'.token, max_word_length)]_vars

C7_Witness ==
    /\ call.op = "decode"
    /\ call.of = <<mask_token>>
    /\ mask_character_ids = ExpectedMASK(max_word_length)

\* C8: whatever a caller writes into the lists it was handed, a later encode of
\* a special tag returns the array built at construction, and a later
\* buildInputs result begins with the CLS array and ends with the SEP array
\* built at construction.
C8_CallerOwnsArrays ==
    /\ (call.op = "encode" /\ call.token \in SpecialTokens)
        => Deref(call.ret) = ExpectedSpecial(call.token, max_word_length)
    /\ call.op = "build_inputs"
        => /\ Deref(call.ret[1]) = ExpectedCLS(max_word_length)
           /\ Deref(call.ret[Len(call.ret)]) = ExpectedSEP(max_word_length)

\* C9: buildInputs(A) is CLS, A, SEP and buildInputs(A, B) is CLS, A, SEP, B,
\* SEP, the latter whenever B is given, empty or not.
C9_BuildInputsLayout ==
    call.op = "build_inputs" =>
        LET A == Contents(call.token_ids_0)
            CLS == <<ExpectedCLS(max_word_length)>>
            SEP == <<ExpectedSEP(max_word_length)>>
        IN  Contents(call.ret) =
                IF call.token_ids_1 = None
                THEN CLS \o A \o SEP
                ELSE CLS \o A \o SEP \o Contents(call.token_ids_1[1]) \o SEP

C9_Witness ==
    /\ call.op = "build_inputs"
    /\ Len(call.token_ids_0) = 2
    /\ call.token_ids_0[1] # call.token_ids_0[2]
    /\ call.token_ids_1 = Some(<<>>)
    /\ Len(call.ret) = 5

\* C10: without already_has_special_tokens, specialTokensMask(A, B) is as long
\* as buildInputs(A, B) and holds 1 exactly at the positions where buildInputs
\* adds CLS or SEP: the first, the one after A and, for a pair, the last.
C10_SpecialTokensMask ==
    (call.op = "special_tokens_mask" /\ ~call.already_has_special_tokens) =>
        LET A == call.token_ids_0
            n == Len(A)
            built == build_inputs_with_special_tokens(A, call.token_ids_1)
            added == IF call.token_ids_1 = None
                     THEN {1, n + 2}
                     ELSE {1, n + 2, n + Len(call.token_ids_1[1]) + 3}
        IN  /\ call.ret.exc = "None"
            /\ Len(call.ret.value) = Len(built)
            /\ \A i \in 1..Len(built) : call.ret.value[i] = IF i \in added THEN 1 ELSE 0

C10_Witness ==
    /\ call.op = "special_tokens_mask"
    /\ ~call.already_has_special_tokens
    /\ Len(call.token_ids_0) = 1
    /\ call.token_ids_1 # None
    /\ Len(call.token_ids_1[1]) = 1
    /\ call.ret.value = <<1, 0, 1, 0, 1>>

\* C11: tokenTypeIds(A, B) is as long as buildInputs(A, B): len(A) + 2 zeros
\* when B is absent, and len(A) + 2 zeros followed by len(B) + 1 ones when B
\* is given; it is non-decreasing and its first 1 is at the index right after
\* the first SEP.
C11_TokenTypeIds ==
    call.op = "token_type_ids" =>
        LET n == Len(call.token_ids_0)
            built == build_inputs_with_special_tokens(call.token_ids_0, call.token_ids_1)
            ones == IF call.token_ids_1 = None THEN 0 ELSE Len(call.token_ids_1[1]) + 1
            ret == call.ret
        IN  /\ Len(ret) = Len(built)
            /\ Len(ret) = n + 2 + ones
            /\ \A i \in 1..Len(ret) : ret[i] = IF i <= n + 2 THEN 0 ELSE 1
            /\ \A i \in 1..(Len(ret) - 1) : ret[i] <= ret[i + 1]
            /\ call.token_ids_1 # None =>
                   /\ built[n + 2].ref = "sep_character_ids"
                   /\ ret[n + 3] = 1
                   /\ \A i \in 1..(n + 2) : ret[i] = 0

C11_Witness ==
    /\ call.op = "token_type_ids"
    /\ Len(call.token_ids_0) = 1
    /\ call.token_ids_1 # None
    /\ Len(call.token_ids_1[1]) = 1
    /\ call.ret = <<0, 0, 0, 1, 1>>

\* C16: for an ordinary token with UTF-8 bytes b_1..b_n and
\* k = min(n, max_word_length - 2), encode returns 259, then b_1 + 1 .. b_k + 1,
\* then 260, then 261 in every later position; a token of exactly
\* max_word_length - 2 bytes ends with 260 and a longer one keeps its first
\* max_word_length - 2 bytes.
C16_EncodeLayout ==
    (call.op = "encode" /\ call.token \notin SpecialTokens) =>
        LET b == str_encode(call.token)
            n == Len(b)
            k == IF n < max_word_length - 2 THEN n ELSE max_word_length - 2
        IN  Deref(call.ret) =
                <<259>> \o [i \in 1..k |-> b[i] + 1] \o <<260>>
                \o Repeat(261, max_word_length - k - 2)

\* a token one byte too long: its last byte is dropped and 260 is last
C16_Witness ==
    /\ call.op = "encode"
    /\ call.token = <<97, 256>>
    /\ max_word_length = 4
    /\ Deref(call.ret) = <<259, 98, 197, 260>>

\* C12: a constructor call with max_word_length < 3 raises the configuration
\* error before any special array is derived and returns no instance; a call
\* with max_word_length >= 3 raises nothing and assigns all four special arrays.
C12_Construction ==
    call.op = "construct" =>
        IF call.max_word_length < 3
        THEN /\ call.exc = "ValueError"
             /\ call.ret = None
             /\ cls_character_ids = Unset
             /\ sep_character_ids = Unset
             /\ mask_character_ids = Unset
             /\ pad_character_ids = Unset
        ELSE /\ call.exc = "None"
             /\ call.ret # None
             /\ cls_character_ids = ExpectedCLS(call.max_word_length)
             /\ sep_character_ids = ExpectedSEP(call.max_word_length)
             /\ mask_character_ids = ExpectedMASK(call.max_word_length)
             /\ pad_character_ids = ExpectedPAD(call.max_word_length)

\* the largest rejected value has been tried
C12_Witness ==
    /\ call.op = "construct"
    /\ call.max_word_length = 2
    /\ call.exc = "ValueError"
    /\ cls_character_ids = Unset

\* C13: for every text and every configuration, segmenting the space-joined
\* output of a segmentation returns that same output.
C13_Idempotence ==
    call.op = "resegment" => call.ret = call.first

\* C14: with do_split_on_punc enabled and a token outside never_split,
\* _run_split_on_punc returns segments whose concatenation is the token; no
\* segment is empty, a punctuation character is a segment of its own, and
\* every other segment is a maximal run of non-punctuation characters.
C14_PunctuationSplit ==
    (/\ call.op = "split_on_punc"
     /\ basic_tokenizer.do_split_on_punc
     /\ call.token \notin call.never_split) =>
        LET ret == call.ret
            IsPunc(seg) == \E j \in 1..Len(seg) : is_punctuation(seg[j])
        IN  /\ Concat(ret) = call.token
            /\ \A i \in 1..Len(ret) :
                   /\ ret[i] # <<>>
                   /\ IsPunc(ret[i]) => Len(ret[i]) = 1
            /\ \A i \in 1..(Len(ret) - 1) : IsPunc(ret[i]) \/ IsPunc(ret[i + 1])

\* a letter after a punctuation character starts a segment
C14_Witness ==
    /\ call.op = "split_on_punc"
    /\ basic_tokenizer.do_split_on_punc
    /\ call.never_split = {}
    /\ call.token = <<39, 304>>
    /\ call.ret = <<<<39>>, <<304>>>>

\* C15: every whitespace-delimited token of the cleaned, NFC-normalized text
\* that is in the instance's never_split set or in the call's is a token of
\* the output, exactly as it is, whatever the casing, accent and punctuation
\* options; the instance's never_split set stays what it was constructed with.
C15_NeverSplit ==
    call.op = "segment" =>
        LET never == basic_tokenizer.never_split \cup call.never_split
            orig_tokens == whitespace_tokenize(nfc(tokenize_chinese_chars(
                               clean_text(call.text))))
        IN  /\ \A i \in 1..Len(orig_tokens) :
                   orig_tokens[i] \in never =>
                       \E j \in 1..Len(call.ret) : call.ret[j] = orig_tokens[i]
            /\ Len(orig_tokens) = 1 /\ orig_tokens[1] \in never =>
                   call.ret = orig_tokens
            /\ basic_tokenizer.never_split = InstanceNeverSplit

\* a token of the per-call set that lowercasing would change, next to one of
\* the instance's set that the punctuation split would cut
C15_Witness ==
    /\ call.op = "segment"
    /\ basic_tokenizer.do_lower_case
    /\ basic_tokenizer.do_split_on_punc
    /\ call.never_split = {<<304>>}
    /\ call.text = <<304>>
    /\ call.ret = <<<<304>>>>
====
